---- MODULE Spec2Model ----
(***************************************************************************)
(* The dnsconfd DNS plugin of NetworkManager                               *)
(* (src/core/dns/nm-dns-dnsconfd.c) as a state machine.                    *)
(*                                                                         *)
(* The plugin's private structure NMDnsDnsconfdPrivate gives the first six *)
(* variables, under the names of its fields.  The other variables are the  *)
(* world the plugin talks to through GDBus: the method calls and owner     *)
(* lookups whose callbacks have not run yet, the NameOwnerChanged          *)
(* subscriptions and the signals queued for them, and the owner the bus    *)
(* daemon currently records for com.redhat.dnsconfd.                       *)
(*                                                                         *)
(* Everything runs on one GLib main loop, so every handler (update, stop,  *)
(* dispose, a signal callback, an async completion callback) is one atomic *)
(* action.  A handler is written as an operator from a world record to a   *)
(* world record, so that a handler calling another (name_owner_changed     *)
(* calls send_dnsconfd_update) is operator application.                    *)
(***************************************************************************)
EXTENDS Integers, Sequences, FiniteSets, TLC

\* ------------------------------------------------------------------ bounds

\* Update calls made in one behaviour.
MaxUpdates == 2
\* D-Bus method calls whose callback has not run yet (cancelled ones included).
MaxCalls == 2
\* Owner lookups whose callback has not run yet (cancelled ones included).
MaxLookups == 2
\* NameOwnerChanged signals queued for one subscription.
MaxSignals == 2
\* Signal subscriptions the bus connection can hold.
MaxSubs == 2

\* ------------------------------------------------------------- constants

\* A NULL pointer of type char* (name_owner), and the empty string that
\* NameOwnerChanged carries as new_owner when the name lost its owner.
NULL == "NULL"
EmptyStr == ""
\* A NULL GCancellable*, a zero subscription id, a NULL GVariant*:
\* g_object_new zero-fills the private structure.
NoId == 0

\* The unique bus names the daemon may hold its well-known name under (the
\* bus hands out many; two let the owner change from one to another).
Owners == {":1.1", ":1.2"}
CallIds == 1..MaxCalls
LookupIds == 1..MaxLookups
SubIds == 1..MaxSubs

\* ConnectionState, the result of ensure_all_connected.
CONNECTION_FAIL == "CONNECTION_FAIL"
CONNECTION_SUCCESS == "CONNECTION_SUCCESS"
CONNECTION_WAIT == "CONNECTION_WAIT"

VARIABLES
    dbus_connection,          \* priv->dbus_connection: TRUE when a handle is held
    update_cancellable,       \* priv->update_cancellable: NoId or the id of its call
    name_owner,               \* priv->name_owner: NULL or the cached unique name
    name_owner_changed_id,    \* priv->name_owner_changed_id: NoId or a subscription id
    name_owner_cancellable,   \* priv->name_owner_cancellable: NoId or the id of its lookup
    latest_update_args,       \* priv->latest_update_args: NoId or the retained message
    calls,                    \* Update method calls whose callback has not run
    lookups,                  \* GetNameOwner calls whose callback has not run
    subscriptions,            \* the active NameOwnerChanged subscriptions
    signals,                  \* per subscription, the signals not yet dispatched
    busOwner,                 \* the owner of com.redhat.dnsconfd on the bus, or NULL
    mainBus,                  \* whether NM_MAIN_DBUS_CONNECTION_GET is non-NULL
    lifecycle,                \* "running", "disposed" or "crashed"
    builds,                   \* number of messages built by update() so far
    step,                     \* what the last handler did (observable effects)
    hist                      \* what has happened since the last update() or owner change

vars == <<dbus_connection, update_cancellable, name_owner, name_owner_changed_id,
          name_owner_cancellable, latest_update_args, calls, lookups, subscriptions,
          signals, busOwner, mainBus, lifecycle, builds, step, hist>>

\* ------------------------------------------------------------ world record

\* The state a handler starts from.  sends, notify and logs collect what the
\* handler does: the calls it issues, its calls of
\* _nm_dns_plugin_update_pending_maybe_changed and its log lines.  overflow is
\* set when the handler needs more in-flight objects than the bounds allow.
Cur ==
    [dbus_connection        |-> dbus_connection,
     update_cancellable     |-> update_cancellable,
     name_owner             |-> name_owner,
     name_owner_changed_id  |-> name_owner_changed_id,
     name_owner_cancellable |-> name_owner_cancellable,
     latest_update_args     |-> latest_update_args,
     calls                  |-> calls,
     lookups                |-> lookups,
     subscriptions          |-> subscriptions,
     signals                |-> signals,
     crashed                |-> FALSE,
     sends                  |-> <<>>,
     notify                 |-> 0,
     logs                   |-> <<>>,
     overflow               |-> FALSE]

\* The state a handler leaves, with its observable effects recorded in step
\* (owner_was is the owner cached when the handler started).
Commit(w, op, ret) ==
    /\ ~w.overflow
    /\ dbus_connection' = w.dbus_connection
    /\ update_cancellable' = w.update_cancellable
    /\ name_owner' = w.name_owner
    /\ name_owner_changed_id' = w.name_owner_changed_id
    /\ name_owner_cancellable' = w.name_owner_cancellable
    /\ latest_update_args' = w.latest_update_args
    /\ calls' = w.calls
    /\ lookups' = w.lookups
    /\ subscriptions' = w.subscriptions
    /\ signals' = w.signals
    /\ step' = [op |-> op, ret |-> ret, sends |-> w.sends,
                notify |-> w.notify, logs |-> w.logs, owner_was |-> name_owner]

\* hist records, for the claims about what eventually happens: lastCmd, the
\* framework's last call ("none", "update_ok", "update_failed", "stop");
\* delivered, whether a call carrying the latest message was issued to the
\* bus's current owner since both were last set; lookupFailed, whether some
\* lookup failed while the bus had an owner.
\* Delivered: the handler that left world w issued message m to that owner.
Delivered(w, m) ==
    \E i \in 1..Len(w.sends) : w.sends[i] = [dest |-> busOwner, msg |-> m]

NoEffect(op) ==
    [op |-> op, ret |-> "void", sends |-> <<>>, notify |-> 0, logs |-> <<>>,
     owner_was |-> name_owner]

Log(w, line) == [w EXCEPT !.logs = Append(@, line)]

\* _nm_dns_plugin_update_pending_maybe_changed(): tells the framework that the
\* plugin's pending status may have changed.
update_pending_maybe_changed(w) == [w EXCEPT !.notify = @ + 1]

\* --------------------------------------------------------------- GLib/GDBus

\* g_cancellable_cancel on the cancellable of call id: the call's callback
\* will report G_IO_ERROR_CANCELLED whenever it runs, and nothing else of the
\* call is looked at again, so only its id is kept.
CancelCall(cs, id) ==
    {IF c.id = id THEN [id |-> id, dest |-> NULL, msg |-> NoId, cancelled |-> TRUE]
     ELSE c : c \in cs}

CancelLookup(ls, id) ==
    {IF l.id = id THEN [l EXCEPT !.cancelled = TRUE] ELSE l : l \in ls}

\* nm_clear_g_cancellable(&priv->update_cancellable)
clear_update_cancellable(w) ==
    IF w.update_cancellable = NoId THEN w
    ELSE [w EXCEPT !.calls = CancelCall(@, w.update_cancellable),
                   !.update_cancellable = NoId]

\* nm_clear_g_cancellable(&priv->name_owner_cancellable)
clear_name_owner_cancellable(w) ==
    IF w.name_owner_cancellable = NoId THEN w
    ELSE [w EXCEPT !.lookups = CancelLookup(@, w.name_owner_cancellable),
                   !.name_owner_cancellable = NoId]

\* g_dbus_connection_signal_unsubscribe() called without the test for a zero
\* id that nm_clear_g_dbus_connection_signal makes: GLib rejects the call
\* with a critical message when there is nothing to unsubscribe.
clear_name_owner_changed_id_unchecked(w) ==
    IF w.name_owner_changed_id = NoId
    THEN Log(w, "C: g_dbus_connection_signal_unsubscribe: assertion failed")
    ELSE [w EXCEPT !.subscriptions = @ \ {w.name_owner_changed_id},
                   !.signals = [@ EXCEPT ![w.name_owner_changed_id] = <<>>],
                   !.name_owner_changed_id = NoId]

\* nm_clear_g_dbus_connection_signal(priv->dbus_connection,
\*                                   &priv->name_owner_changed_id):
\* an unsubscribed handler is never called again, queued signals are dropped.
clear_name_owner_changed_id(w) ==
    IF w.name_owner_changed_id = NoId THEN w
    ELSE [w EXCEPT !.subscriptions = @ \ {w.name_owner_changed_id},
                   !.signals = [@ EXCEPT ![w.name_owner_changed_id] = <<>>],
                   !.name_owner_changed_id = NoId]

FreeCallIds(w) == {i \in CallIds : i # w.update_cancellable /\ \A c \in w.calls : c.id # i}
FreeLookupIds(w) ==
    {i \in LookupIds : i # w.name_owner_cancellable /\ \A l \in w.lookups : l.id # i}
FreeSubIds(w) == SubIds \ w.subscriptions

Least(S) == CHOOSE i \in S : \A j \in S : i <= j

\* nm_str_not_empty(): NULL for NULL and for "".
nm_str_not_empty(s) == IF s = EmptyStr THEN NULL ELSE s

\* ----------------------------------------------------------------- handlers

\* send_dnsconfd_update() without line 320: the previous cancellable is
\* overwritten, not cancelled.
send_dnsconfd_update_no_cancel(w) ==
    IF FreeCallIds(w) = {} THEN [w EXCEPT !.overflow = TRUE]
    ELSE LET id == Least(FreeCallIds(w))
             call == [id |-> id, dest |-> w.name_owner,
                      msg |-> w.latest_update_args, cancelled |-> FALSE]
         IN  update_pending_maybe_changed(
                 [w EXCEPT !.update_cancellable = id,
                           !.calls = @ \cup {call},
                           !.sends = Append(@, [dest |-> call.dest, msg |-> call.msg])])

\* send_dnsconfd_update(): cancel the previous call, issue a new one that
\* carries latest_update_args to name_owner, notify.
send_dnsconfd_update(w) ==
    LET w1 == clear_update_cancellable(w)
    IN  IF FreeCallIds(w1) = {} THEN [w1 EXCEPT !.overflow = TRUE]
        ELSE LET id == Least(FreeCallIds(w1))
                 call == [id |-> id, dest |-> w1.name_owner,
                          msg |-> w1.latest_update_args, cancelled |-> FALSE]
             IN  update_pending_maybe_changed(
                     [w1 EXCEPT !.update_cancellable = id,
                                !.calls = @ \cup {call},
                                !.sends = Append(@, [dest |-> call.dest, msg |-> call.msg])])

\* name_owner_changed() without the comparison of lines 345-346.
name_owner_changed_no_compare(w, new_owner) ==
    LET owner == nm_str_not_empty(new_owner)
        w1 == [w EXCEPT !.name_owner = owner]
    IN  IF owner = NULL
        THEN Log(w1, "D: D-Bus name for dnsconfd disappeared")
        ELSE update_pending_maybe_changed(
                 send_dnsconfd_update(Log(w1, "T: D-Bus name for dnsconfd got owner")))

\* name_owner_changed() that sends only when no owner was cached before: a
\* change from one owner to another just replaces the cached name.
name_owner_changed_no_resend(w, new_owner) ==
    LET owner == nm_str_not_empty(new_owner)
    IN  IF w.name_owner = owner THEN w
        ELSE LET w1 == [w EXCEPT !.name_owner = owner]
             IN  IF owner = NULL
                 THEN Log(w1, "D: D-Bus name for dnsconfd disappeared")
                 ELSE IF w.name_owner # NULL
                 THEN Log(w1, "T: D-Bus name for dnsconfd got owner")
                 ELSE update_pending_maybe_changed(
                          send_dnsconfd_update(
                              Log(w1, "T: D-Bus name for dnsconfd got owner")))

\* name_owner_changed() that gives up the retained message when the owner
\* disappears.
name_owner_changed_drops_args(w, new_owner) ==
    LET owner == nm_str_not_empty(new_owner)
    IN  IF w.name_owner = owner THEN w
        ELSE LET w1 == [w EXCEPT !.name_owner = owner]
             IN  IF owner = NULL
                 THEN Log([w1 EXCEPT !.latest_update_args = NoId],
                          "D: D-Bus name for dnsconfd disappeared")
                 ELSE update_pending_maybe_changed(
                          send_dnsconfd_update(
                              Log(w1, "T: D-Bus name for dnsconfd got owner")))

\* name_owner_changed(self, name_owner)
name_owner_changed(w, new_owner) ==
    LET owner == nm_str_not_empty(new_owner)
    IN  IF w.name_owner = owner THEN w
        ELSE LET w1 == [w EXCEPT !.name_owner = owner]
             IN  IF owner = NULL
                 THEN Log(w1, "D: D-Bus name for dnsconfd disappeared")
                 ELSE update_pending_maybe_changed(
                          send_dnsconfd_update(
                              Log(w1, "T: D-Bus name for dnsconfd got owner")))

\* ensure_all_connected() without the test of line 407: it subscribes on
\* every call that finds no owner.
ensure_all_connected_resubscribes(w) ==
    LET w1 == IF ~w.dbus_connection THEN [w EXCEPT !.dbus_connection = mainBus] ELSE w
    IN  IF ~w1.dbus_connection THEN <<CONNECTION_FAIL, w1>>
        ELSE IF w1.name_owner # NULL THEN <<CONNECTION_SUCCESS, w1>>
        ELSE LET w2 == IF FreeSubIds(w1) = {} THEN [w1 EXCEPT !.overflow = TRUE]
                       ELSE LET sid == Least(FreeSubIds(w1))
                            IN  [w1 EXCEPT !.name_owner_changed_id = sid,
                                           !.subscriptions = @ \cup {sid}]
                 w3 == IF w2.name_owner_cancellable # NoId THEN w2
                       ELSE IF FreeLookupIds(w2) = {} THEN [w2 EXCEPT !.overflow = TRUE]
                       ELSE LET lid == Least(FreeLookupIds(w2))
                            IN  [w2 EXCEPT !.name_owner_cancellable = lid,
                                           !.lookups = @ \cup {[id |-> lid, cancelled |-> FALSE]}]
             IN  <<CONNECTION_WAIT, w3>>

\* ensure_all_connected(): <<state, world>>
ensure_all_connected(w) ==
    LET w1 == IF ~w.dbus_connection THEN [w EXCEPT !.dbus_connection = mainBus] ELSE w
    IN  IF ~w1.dbus_connection THEN <<CONNECTION_FAIL, w1>>
        ELSE IF w1.name_owner # NULL THEN <<CONNECTION_SUCCESS, w1>>
        ELSE LET w2 == IF w1.name_owner_changed_id # NoId THEN w1
                       ELSE IF FreeSubIds(w1) = {} THEN [w1 EXCEPT !.overflow = TRUE]
                       ELSE LET sid == Least(FreeSubIds(w1))
                            IN  [w1 EXCEPT !.name_owner_changed_id = sid,
                                           !.subscriptions = @ \cup {sid}]
                 w3 == IF w2.name_owner_cancellable # NoId THEN w2
                       ELSE IF FreeLookupIds(w2) = {} THEN [w2 EXCEPT !.overflow = TRUE]
                       ELSE LET lid == Least(FreeLookupIds(w2))
                            IN  [w2 EXCEPT !.name_owner_cancellable = lid,
                                           !.lookups = @ \cup {[id |-> lid, cancelled |-> FALSE]}]
             IN  <<CONNECTION_WAIT, w3>>

\* update() that sends whatever ensure_all_connected answers short of failure.
update_sends_while_waiting(w, args) ==
    LET w1 == [w EXCEPT !.latest_update_args = args]
        r  == ensure_all_connected(w1)
    IN  IF r[1] = CONNECTION_FAIL THEN <<FALSE, r[2]>>
        ELSE <<TRUE, send_dnsconfd_update(r[2])>>

\* update() that keeps the message it already holds (lines 537-538 run only
\* when nothing is retained).
update_keeps_old_args(w, args) ==
    LET w1 == IF w.latest_update_args = NoId THEN [w EXCEPT !.latest_update_args = args]
              ELSE w
        r  == ensure_all_connected(w1)
    IN  IF r[1] = CONNECTION_FAIL THEN <<FALSE, r[2]>>
        ELSE IF r[1] = CONNECTION_WAIT THEN <<TRUE, r[2]>>
        ELSE <<TRUE, send_dnsconfd_update(r[2])>>

\* update() that reports the wait for an owner as a failure.
update_wait_is_error(w, args) ==
    LET w1 == [w EXCEPT !.latest_update_args = args]
        r  == ensure_all_connected(w1)
    IN  IF r[1] = CONNECTION_FAIL THEN <<FALSE, r[2]>>
        ELSE IF r[1] = CONNECTION_WAIT THEN <<FALSE, r[2]>>
        ELSE <<TRUE, send_dnsconfd_update(r[2])>>

\* update(): build the message, retain it, connect, send when the owner is known.
\* The message is identified by the number of the update() call that built it.
\* <<return value, world>>
update(w, args) ==
    LET w1 == [w EXCEPT !.latest_update_args = args]
        r  == ensure_all_connected(w1)
    IN  IF r[1] = CONNECTION_FAIL THEN <<FALSE, r[2]>>
        ELSE IF r[1] = CONNECTION_WAIT THEN <<TRUE, r[2]>>
        ELSE <<TRUE, send_dnsconfd_update(r[2])>>

\* stop()
stop(w) ==
    clear_name_owner_changed_id(clear_name_owner_cancellable(clear_update_cancellable(w)))

\* _update_pending_detect() / get_update_pending()
get_update_pending(w) == w.update_cancellable # NoId

\* dnsconfd_update_done() without line 72: update_cancellable is left set.
dnsconfd_update_done_keeps_cancellable(w, c, outcome, ub) ==
    LET w0 == [w EXCEPT !.calls = @ \ {c}]
    IN  IF outcome = "cancelled" THEN w0
        ELSE IF outcome = "error"
        THEN LET w2 == Log(w0, "W: dnsconfd update failed: error")
             IN  IF ub = "crash" THEN [w2 EXCEPT !.crashed = TRUE]
                 ELSE update_pending_maybe_changed(
                          Log(w2, "W: dnsconfd update failed: <uninitialised>"))
        ELSE IF outcome = "ok"
        THEN update_pending_maybe_changed(Log(w0, "T: dnsconfd update successful"))
        ELSE update_pending_maybe_changed(Log(w0, "W: dnsconfd update failed: message"))

\* dnsconfd_update_done() without the test of lines 66-67: a cancelled call,
\* which has no reply, is handled like any other call without a reply.
dnsconfd_update_done_ignores_cancel(w, c, outcome, ub) ==
    LET w0 == [w EXCEPT !.calls = @ \ {c}]
        w1 == clear_update_cancellable(w0)
        out == IF outcome = "cancelled" THEN "error" ELSE outcome
    IN  IF out = "error"
        THEN LET w2 == Log(w1, "W: dnsconfd update failed: error")
             IN  IF ub = "crash" THEN [w2 EXCEPT !.crashed = TRUE]
                 ELSE update_pending_maybe_changed(
                          Log(w2, "W: dnsconfd update failed: <uninitialised>"))
        ELSE IF out = "ok"
        THEN update_pending_maybe_changed(Log(w1, "T: dnsconfd update successful"))
        ELSE update_pending_maybe_changed(Log(w1, "W: dnsconfd update failed: message"))

\* dnsconfd_update_done() for call c.  outcome is what
\* g_dbus_connection_call_finish reports: "cancelled" (G_IO_ERROR_CANCELLED),
\* "ok" (reply, success flag set), "failed" (reply, flag clear) or "error" (no
\* reply: error response, timeout, transport failure).  With no reply the
\* function goes on to g_variant_get(NULL, ...) and logs an uninitialised
\* string: ub is what the build makes of that, "crash" or "garbage".
dnsconfd_update_done(w, c, outcome, ub) ==
    LET w0 == [w EXCEPT !.calls = @ \ {c}]
    IN  IF outcome = "cancelled" THEN w0
        ELSE LET w1 == clear_update_cancellable(w0)
             IN  IF outcome = "error"
                 THEN LET w2 == Log(w1, "W: dnsconfd update failed: error")
                      IN  IF ub = "crash" THEN [w2 EXCEPT !.crashed = TRUE]
                          ELSE update_pending_maybe_changed(
                                   Log(w2, "W: dnsconfd update failed: <uninitialised>"))
                 ELSE IF outcome = "ok"
                 THEN update_pending_maybe_changed(Log(w1, "T: dnsconfd update successful"))
                 ELSE update_pending_maybe_changed(
                          Log(w1, "W: dnsconfd update failed: message"))

\* get_name_owner_cb() for lookup l.  owner is the owner the bus reported, or
\* NULL with an error: "cancelled" (G_IO_ERROR_CANCELLED) or "failed"
\* (NameHasNoOwner, timeout, transport failure).
get_name_owner_cb(w, l, owner, error) ==
    LET w0 == [w EXCEPT !.lookups = @ \ {l}]
    IN  IF owner = NULL /\ error = "cancelled" THEN w0
        ELSE name_owner_changed(w0, owner)

\* name_owner_changed_cb() for a signal with parameters (name, old, new);
\* typed is FALSE for parameters that are not of type (sss).
name_owner_changed_cb(w, typed, new_owner) ==
    IF ~typed THEN w ELSE name_owner_changed(w, new_owner)

\* -------------------------------------------------------------------- Init

Init ==
    /\ dbus_connection = FALSE
    /\ update_cancellable = NoId
    /\ name_owner = NULL
    /\ name_owner_changed_id = NoId
    /\ name_owner_cancellable = NoId
    /\ latest_update_args = NoId
    /\ calls = {}
    /\ lookups = {}
    /\ subscriptions = {}
    /\ signals = [s \in SubIds |-> <<>>]
    /\ busOwner \in Owners \cup {NULL}
    /\ mainBus \in BOOLEAN
    /\ lifecycle = "running"
    /\ builds = 0
    /\ step = NoEffect("init")
    /\ hist = [lastCmd |-> "none", delivered |-> FALSE, lookupFailed |-> FALSE]

Running == lifecycle = "running"

\* ----------------------------------------------------------------- actions

\* The framework calls update() with a new configuration snapshot.
Update ==
    /\ Running
    /\ builds < MaxUpdates
    /\ LET r == update(Cur, builds + 1)
       IN  /\ Commit(r[2], "update", IF r[1] THEN "TRUE" ELSE "FALSE")
           /\ hist' = [hist EXCEPT !.lastCmd = IF r[1] THEN "update_ok" ELSE "update_failed",
                                   !.delivered = Delivered(r[2], builds + 1)]
    /\ builds' = builds + 1
    /\ UNCHANGED <<busOwner, mainBus, lifecycle>>

\* The framework calls stop().
Stop ==
    /\ Running
    /\ Commit(stop(Cur), "stop", "void")
    /\ hist' = [hist EXCEPT !.lastCmd = "stop"]
    /\ UNCHANGED <<busOwner, mainBus, lifecycle, builds>>

\* The framework drops its last reference: dispose() stops the plugin, frees
\* name_owner and latest_update_args and releases the connection.  Nothing
\* reads the object afterwards; only callbacks of cancelled calls still run.
Dispose ==
    /\ Running
    /\ Commit([stop(Cur) EXCEPT !.dbus_connection = FALSE,
                                !.name_owner = NULL,
                                !.latest_update_args = NoId], "dispose", "void")
    /\ hist' = [hist EXCEPT !.lastCmd = "stop"]
    /\ lifecycle' = "disposed"
    /\ UNCHANGED <<busOwner, mainBus, builds>>

\* The main loop runs the completion callback of a method call.
UpdateDone ==
    \E c \in calls, outcome \in {"cancelled", "ok", "failed", "error"},
       ub \in {"none", "crash", "garbage"} :
        /\ lifecycle # "crashed"
        /\ c.cancelled \/ Running
        /\ (outcome = "cancelled") <=> c.cancelled
        /\ (ub = "none") <=> (outcome # "error")
        /\ LET w == dnsconfd_update_done(Cur, c, outcome, ub)
           IN  /\ Commit(w, IF outcome = "cancelled" THEN "update_done(cancelled)"
                            ELSE "update_done", "void")
               /\ lifecycle' = IF w.crashed THEN "crashed" ELSE lifecycle
        /\ UNCHANGED hist
        /\ UNCHANGED <<busOwner, mainBus, builds>>

\* The main loop runs the completion callback of an owner lookup.
GetNameOwnerDone ==
    \E l \in lookups, owner \in Owners \cup {NULL}, error \in {"none", "cancelled", "failed"} :
        /\ lifecycle # "crashed"
        /\ l.cancelled \/ Running
        /\ (error = "cancelled") <=> l.cancelled
        /\ (error = "none") <=> (owner # NULL)
        /\ owner \in {busOwner, NULL}
        /\ LET w == get_name_owner_cb(Cur, l, owner, error)
           IN  /\ Commit(w, IF error = "cancelled" THEN "get_name_owner_cb(cancelled)"
                            ELSE "get_name_owner_cb", "void")
               /\ hist' = [hist EXCEPT
                              !.delivered = @ \/ Delivered(w, builds),
                              !.lookupFailed = @ \/ (error = "failed" /\ busOwner # NULL)]
        /\ UNCHANGED <<busOwner, mainBus, lifecycle, builds>>

\* The main loop dispatches the oldest queued signal of a subscription.
SignalDelivered ==
    \E s \in subscriptions :
        /\ Running
        /\ signals[s] # <<>>
        /\ LET sig == Head(signals[s])
               w == [Cur EXCEPT !.signals = [@ EXCEPT ![s] = Tail(@)]]
               w2 == name_owner_changed_cb(w, sig.typed, sig.new_owner)
           IN  /\ Commit(w2, "name_owner_changed_cb", "void")
               /\ hist' = [hist EXCEPT !.delivered = @ \/ Delivered(w2, builds)]
        /\ UNCHANGED <<busOwner, mainBus, lifecycle, builds>>

\* The daemon takes, loses or hands over its well-known name: the bus emits
\* NameOwnerChanged to every subscriber.
BusOwnerChanges ==
    \E o \in (Owners \cup {NULL}) \ {busOwner} :
        /\ lifecycle # "crashed"
        /\ \A s \in subscriptions : Len(signals[s]) < MaxSignals
        /\ busOwner' = o
        /\ signals' = [s \in SubIds |->
                          IF s \in subscriptions
                          THEN Append(signals[s],
                                      [typed |-> TRUE,
                                       new_owner |-> IF o = NULL THEN EmptyStr ELSE o])
                          ELSE signals[s]]
        /\ step' = NoEffect("bus")
        /\ hist' = [hist EXCEPT !.delivered = FALSE]
        /\ UNCHANGED <<dbus_connection, update_cancellable, name_owner,
                       name_owner_changed_id, name_owner_cancellable, latest_update_args,
                       calls, lookups, subscriptions, mainBus, lifecycle, builds>>

\* NetworkManager obtains its main D-Bus connection.
MainBusConnects ==
    /\ lifecycle # "crashed"
    /\ ~mainBus
    /\ mainBus' = TRUE
    /\ step' = NoEffect("bus")
    /\ UNCHANGED <<dbus_connection, update_cancellable, name_owner,
                   name_owner_changed_id, name_owner_cancellable, latest_update_args,
                   calls, lookups, subscriptions, signals, busOwner, lifecycle, builds,
                   hist>>

Next ==
    \/ Update
    \/ Stop
    \/ Dispose
    \/ UpdateDone
    \/ GetNameOwnerDone
    \/ SignalDelivered
    \/ BusOwnerChanges
    \/ MainBusConnects

Spec == Init /\ [][Next]_vars

\* -------------------------------------------------- building the message

\* What update() builds from the configuration it is handed (lines 516-529).
\* A configuration is [global_config, ip_data_lst]: the NMGlobalDnsConfig and
\* the list of NMDnsConfigIPData entries.  A char** the code tests for NULL
\* is NoStrv when it is NULL; a char* is NULL when it is NULL.  The message is
\* [servers, resolve_mode]; a server is a record with one field per key of
\* its a{sv} dictionary, and a key the code leaves out has the value NULL
\* (NoStrv for an array).

\* Entries of one configuration: interface entries, their nameservers, search
\* and plain domains, and the global configuration's domains, servers and
\* searches.
MaxEntries == 4

NoStrv == <<>>

AF_UNSPEC == "AF_UNSPEC"
AF_INET == "AF_INET"
AF_INET6 == "AF_INET6"
NM_DNS_URI_SCHEME_NONE == "NM_DNS_URI_SCHEME_NONE"
NM_DNS_URI_SCHEME_TLS == "NM_DNS_URI_SCHEME_TLS"

\* A domain string is the sequence of its parts: the marker "~" when it has
\* one, then the name.  The strings the configurations are made of:
SearchStrings == {<<"~", ".">>, <<".">>, <<"corp.example">>}
PlainStrings == {<<"~", ".">>, <<"lan">>}
GlobalDomainNames == {<<"*">>, <<"corp.example">>}
GlobalSearchStrings == {<<"g.example">>}
NameserverStrings == {"9.9.9.9", "1.1.1.1", "2001:db8::1", "bogus"}
GlobalServerStrings == {"dns+tls://1.2.3.4#dns.example"}
CaStrings == {"/etc/ca.pem"}

\* nm_utils_parse_dns_domain(domain, &is_routing): a leading "~" marks a
\* routing-only domain; the name after it is returned.
nm_utils_parse_dns_domain(domain) ==
    IF Head(domain) = "~"
    THEN [domain |-> Tail(domain), is_routing |-> TRUE]
    ELSE [domain |-> domain, is_routing |-> FALSE]

\* nm_dns_uri_parse(addr_family, str, &dns_server): FALSE for a string that
\* is no DNS server address of the family asked for, else the NMDnsServer.
nm_dns_uri_parse(addr_family, str) ==
    LET no == [ok |-> FALSE, addr_family |-> AF_UNSPEC, addr |-> <<>>,
               scheme |-> NM_DNS_URI_SCHEME_NONE, servername |-> NULL]
        yes(family, a, scheme, name) ==
            IF addr_family \in {AF_UNSPEC, family}
            THEN [ok |-> TRUE, addr_family |-> family, addr |-> a,
                  scheme |-> scheme, servername |-> name]
            ELSE no
    IN  CASE str = "9.9.9.9" -> yes(AF_INET, <<9, 9, 9, 9>>, NM_DNS_URI_SCHEME_NONE, NULL)
          [] str = "1.1.1.1" -> yes(AF_INET, <<1, 1, 1, 1>>, NM_DNS_URI_SCHEME_NONE, NULL)
          [] str = "2001:db8::1" ->
                 yes(AF_INET6, <<8193, 3512, 0, 0, 0, 0, 0, 1>>, NM_DNS_URI_SCHEME_NONE, NULL)
          [] str = "dns+tls://1.2.3.4#dns.example" ->
                 yes(AF_INET, <<1, 2, 3, 4>>, NM_DNS_URI_SCHEME_TLS, "dns.example")
          [] OTHER -> no

\* nm_platform_link_get_name(ifindex)
nm_platform_link_get_name(ifindex) == "eth" \o ToString(ifindex)

\* The records appended to a GVariantBuilder one array after the other.
RECURSIVE builder_concat(_)
builder_concat(ss) ==
    IF ss = <<>> THEN <<>> ELSE Head(ss) \o builder_concat(Tail(ss))

\* is_default_interface_explicit() that looks only at the entries that have
\* nameservers.
is_default_interface_explicit_with_servers(ip_data_lst_head) ==
    \E i \in 1..Len(ip_data_lst_head) :
        /\ ip_data_lst_head[i].nameservers # <<>>
        /\ \E j \in 1..Len(ip_data_lst_head[i].searches) :
              nm_utils_parse_dns_domain(ip_data_lst_head[i].searches[j]).domain = <<".">>

\* is_default_interface_explicit(): some search of some entry names ".";
\* is_routing is written by the parser and not read.
is_default_interface_explicit(ip_data_lst_head) ==
    \E i \in 1..Len(ip_data_lst_head) :
        \E j \in 1..Len(ip_data_lst_head[i].searches) :
            nm_utils_parse_dns_domain(ip_data_lst_head[i].searches[j]).domain = <<".">>

\* gather_interface_domains() that goes through the searches and then the
\* plain domains.
gather_interface_domains_both_lists(ip_data, is_default_explicit) ==
    LET strv_domains == ip_data.searches \o ip_data.domains
        parsed == [i \in 1..Len(strv_domains) |-> nm_utils_parse_dns_domain(strv_domains[i])]
        not_routing(p) == ~p.is_routing
        kept == SelectSeq(parsed, not_routing)
        routing == [i \in 1..Len(parsed) |-> parsed[i].domain]
        search == [i \in 1..Len(kept) |-> kept[i].domain]
    IN  [routing_domains |->
             IF ~is_default_explicit /\ ip_data.best_default_route
             THEN Append(routing, <<".">>) ELSE routing,
         search_domains |-> search]

\* gather_interface_domains(): the searches, or the plain domains when there
\* are no searches; every name is a routing domain, the names without marker
\* are search domains; "." is added for the best default route unless the
\* default is explicit.  An empty array is returned as NULL.
gather_interface_domains(ip_data, is_default_explicit) ==
    LET strv_domains == IF Len(ip_data.searches) = 0 THEN ip_data.domains
                        ELSE ip_data.searches
        parsed == [i \in 1..Len(strv_domains) |-> nm_utils_parse_dns_domain(strv_domains[i])]
        not_routing(p) == ~p.is_routing
        kept == SelectSeq(parsed, not_routing)
        routing == [i \in 1..Len(parsed) |-> parsed[i].domain]
        search == [i \in 1..Len(kept) |-> kept[i].domain]
    IN  [routing_domains |->
             IF ~is_default_explicit /\ ip_data.best_default_route
             THEN Append(routing, <<".">>) ELSE routing,
         search_domains |-> search]

\* get_networks(): the routes of the entry that are neither default routes
\* nor in the table of the DNS routes, as address/plen; NULL when there are none.
get_networks(ip_data) ==
    LET wanted(route) == ~(route.is_default \/ route.in_dns_routes_table)
        kept == SelectSeq(ip_data.routes, wanted)
    IN  [i \in 1..Len(kept) |-> kept[i].network \o "/" \o ToString(kept[i].plen)]

\* server_builder_append_interface_info(): the keys of the interface, then
\* the dictionary is closed.
server_builder_append_interface_info(rec, interface, networks, connection_id) ==
    [rec EXCEPT !.connection_id = connection_id,
                !.interface = interface,
                !.networks = networks]

\* server_builder_append_base(): FALSE when the string does not parse, else
\* an open dictionary with the keys common to all servers.
server_builder_append_base(address_family, address_string, routing_domains, search_domains, ca) ==
    LET dns_server == nm_dns_uri_parse(address_family, address_string)
    IN  [ok              |-> dns_server.ok,
         rec             |-> [address         |-> dns_server.addr,
                              protocol        |-> IF dns_server.scheme = NM_DNS_URI_SCHEME_TLS
                                                  THEN "dns+tls" ELSE NULL,
                              name            |-> dns_server.servername,
                              routing_domains |-> routing_domains,
                              search_domains  |-> search_domains,
                              ca              |-> ca,
                              connection_id   |-> NULL,
                              interface       |-> NULL,
                              networks        |-> NoStrv]]

\* parse_global_config() that uses the name of every domain as it is.
parse_global_config_keeps_star(global_config) ==
    LET of_domain(domain) ==
            LET appended == [j \in 1..Len(domain.servers) |->
                                server_builder_append_base(AF_UNSPEC, domain.servers[j],
                                                           <<domain.name>>,
                                                           global_config.searches,
                                                           global_config.ca)]
                accepted(a) == a.ok
                closed == SelectSeq(appended, accepted)
            IN  [j \in 1..Len(closed) |-> closed[j].rec]
    IN  [servers      |-> builder_concat([i \in 1..Len(global_config.domains) |->
                                             of_domain(global_config.domains[i])]),
         resolve_mode |-> global_config.resolve_mode,
         ca           |-> global_config.ca]

\* parse_global_config(): for every domain that has servers, one dictionary
\* per server that parses, with the domain's name ("." for "*") as its
\* routing domain, the searches and the ca of the configuration.
\* [servers, resolve_mode, ca]
parse_global_config(global_config) ==
    LET of_domain(domain) ==
            LET routing_domains == <<IF domain.name = <<"*">> THEN <<".">> ELSE domain.name>>
                appended == [j \in 1..Len(domain.servers) |->
                                server_builder_append_base(AF_UNSPEC, domain.servers[j],
                                                           routing_domains,
                                                           global_config.searches,
                                                           global_config.ca)]
                accepted(a) == a.ok
                closed == SelectSeq(appended, accepted)
            IN  [j \in 1..Len(closed) |-> closed[j].rec]
    IN  [servers      |-> builder_concat([i \in 1..Len(global_config.domains) |->
                                             of_domain(global_config.domains[i])]),
         resolve_mode |-> global_config.resolve_mode,
         ca           |-> global_config.ca]

\* parse_all_interface_config() that gives up an entry at its first
\* nameserver that does not parse.
parse_all_interface_config_stops_at_invalid(ip_data_lst_head, ca) ==
    LET explicit_default == is_default_interface_explicit(ip_data_lst_head)
        of_ip_data(ip_data) ==
            LET gathered == gather_interface_domains(ip_data, explicit_default)
                appended == [i \in 1..Len(ip_data.nameservers) |->
                                server_builder_append_base(ip_data.addr_family,
                                                           ip_data.nameservers[i],
                                                           gathered.routing_domains,
                                                           gathered.search_domains, ca)]
                before_invalid(i) == \A k \in 1..i : appended[k].ok
                n == Cardinality({i \in 1..Len(appended) : before_invalid(i)})
            IN  [i \in 1..n |->
                    server_builder_append_interface_info(
                        appended[i].rec, nm_platform_link_get_name(ip_data.ifindex),
                        get_networks(ip_data), ip_data.connection_id)]
    IN  builder_concat([i \in 1..Len(ip_data_lst_head) |-> of_ip_data(ip_data_lst_head[i])])

\* parse_all_interface_config(): for every entry that has nameservers, one
\* dictionary per nameserver that parses, with the domains gathered for the
\* entry, the ca and the keys of the interface.
parse_all_interface_config(ip_data_lst_head, ca) ==
    LET explicit_default == is_default_interface_explicit(ip_data_lst_head)
        of_ip_data(ip_data) ==
            LET gathered == gather_interface_domains(ip_data, explicit_default)
                appended == [i \in 1..Len(ip_data.nameservers) |->
                                server_builder_append_base(ip_data.addr_family,
                                                           ip_data.nameservers[i],
                                                           gathered.routing_domains,
                                                           gathered.search_domains, ca)]
                accepted(a) == a.ok
                opened == SelectSeq(appended, accepted)
            IN  [i \in 1..Len(opened) |->
                    server_builder_append_interface_info(
                        opened[i].rec, nm_platform_link_get_name(ip_data.ifindex),
                        get_networks(ip_data), ip_data.connection_id)]
    IN  builder_concat([i \in 1..Len(ip_data_lst_head) |-> of_ip_data(ip_data_lst_head[i])])

\* update(), lines 516-529: the servers of the global configuration, then
\* those of the interfaces, then the resolve mode.
build_update_args(global_config, ip_data_lst_head) ==
    LET global == IF global_config.set THEN parse_global_config(global_config)
                  ELSE [servers |-> <<>>, resolve_mode |-> 0, ca |-> NULL]
    IN  [servers      |-> global.servers
                          \o parse_all_interface_config(ip_data_lst_head, global.ca),
         resolve_mode |-> global.resolve_mode]

\* ---------------------------------- the configuration handed to update()

\* NetworkManager assembles a configuration and calls update() with it.  In
\* this specification hist holds the configuration; the bus connection is
\* there and the daemon is not running.

NoGlobalConfig ==
    [set |-> FALSE, domains |-> <<>>, searches |-> NoStrv, ca |-> NULL, resolve_mode |-> 0]

RECURSIVE total_len(_)
total_len(ss) == IF ss = <<>> THEN 0 ELSE Len(Head(ss)) + total_len(Tail(ss))

\* The entries of configuration c.
Entries(c) ==
    Len(c.ip_data_lst)
    + total_len([i \in 1..Len(c.ip_data_lst) |->
                  c.ip_data_lst[i].nameservers \o c.ip_data_lst[i].searches
                      \o c.ip_data_lst[i].domains])
    + total_len([i \in 1..Len(c.global_config.domains) |->
                    c.global_config.domains[i].servers])
    + Len(c.global_config.domains) + Len(c.global_config.searches)

BuildInit ==
    /\ dbus_connection = FALSE
    /\ update_cancellable = NoId
    /\ name_owner = NULL
    /\ name_owner_changed_id = NoId
    /\ name_owner_cancellable = NoId
    /\ latest_update_args = NoId
    /\ calls = {}
    /\ lookups = {}
    /\ subscriptions = {}
    /\ signals = [s \in SubIds |-> <<>>]
    /\ busOwner = NULL
    /\ mainBus = TRUE
    /\ lifecycle = "running"
    /\ builds = 0
    /\ step = NoEffect("init")
    /\ hist = [global_config |-> NoGlobalConfig, ip_data_lst |-> <<>>]

\* The configuration changes only before update() is called with it.
Configure(c) ==
    /\ builds = 0
    /\ Entries(c) <= MaxEntries
    /\ hist' = c
    /\ UNCHANGED <<dbus_connection, update_cancellable, name_owner, name_owner_changed_id,
                   name_owner_cancellable, latest_update_args, calls, lookups,
                   subscriptions, signals, busOwner, mainBus, lifecycle, builds, step>>

\* A global configuration is loaded.
SetGlobalConfig ==
    \E ca \in CaStrings \cup {NULL} :
        /\ ~hist.global_config.set
        /\ Configure([hist EXCEPT !.global_config =
                         [set |-> TRUE, domains |-> <<>>, searches |-> NoStrv,
                          ca |-> ca, resolve_mode |-> 1]])

\* The global configuration gets one more domain, without servers.
AddGlobalDomain ==
    \E name \in GlobalDomainNames :
        /\ hist.global_config.set
        /\ \A i \in 1..Len(hist.global_config.domains) :
              hist.global_config.domains[i].name # name
        /\ Configure([hist EXCEPT !.global_config.domains =
                         Append(@, [name |-> name, servers |-> NoStrv])])

\* The last domain of the global configuration gets one more server.
AddGlobalServer ==
    \E str \in GlobalServerStrings :
        /\ hist.global_config.domains # <<>>
        /\ Configure([hist EXCEPT
                         !.global_config.domains[Len(hist.global_config.domains)].servers =
                             Append(@, str)])

\* The global configuration gets one more search.
AddGlobalSearch ==
    \E d \in GlobalSearchStrings :
        /\ hist.global_config.set
        /\ Configure([hist EXCEPT !.global_config.searches = Append(@, d)])

\* One more interface has a configuration of one address family, with or
\* without the best default route of the family, with a route to its subnet.
AddInterface ==
    \E addr_family \in {AF_INET, AF_INET6}, best \in BOOLEAN :
        /\ LET ifindex == Len(hist.ip_data_lst) + 1
               subnet == IF addr_family = AF_INET
                         THEN [network |-> "10.0." \o ToString(ifindex) \o ".0", plen |-> 24,
                               is_default |-> FALSE, in_dns_routes_table |-> FALSE]
                         ELSE [network |-> "fd00:" \o ToString(ifindex) \o "::", plen |-> 64,
                               is_default |-> FALSE, in_dns_routes_table |-> FALSE]
               default == [network |-> IF addr_family = AF_INET THEN "0.0.0.0" ELSE "::",
                           plen |-> 0, is_default |-> TRUE, in_dns_routes_table |-> FALSE]
           IN  Configure([hist EXCEPT !.ip_data_lst =
                             Append(@, [ifindex            |-> ifindex,
                                        addr_family        |-> addr_family,
                                        nameservers        |-> <<>>,
                                        searches           |-> <<>>,
                                        domains            |-> <<>>,
                                        best_default_route |-> best,
                                        routes             |-> IF best THEN <<default, subnet>>
                                                               ELSE <<subnet>>,
                                        connection_id      |-> "connection" \o ToString(ifindex)])])

\* The last interface gets one more nameserver, search or plain domain.
AddNameserver ==
    \E str \in NameserverStrings :
        /\ hist.ip_data_lst # <<>>
        /\ Configure([hist EXCEPT !.ip_data_lst[Len(hist.ip_data_lst)].nameservers =
                         Append(@, str)])

AddSearch ==
    \E d \in SearchStrings :
        /\ hist.ip_data_lst # <<>>
        /\ Configure([hist EXCEPT !.ip_data_lst[Len(hist.ip_data_lst)].searches =
                         Append(@, d)])

AddDomain ==
    \E d \in PlainStrings :
        /\ hist.ip_data_lst # <<>>
        /\ Configure([hist EXCEPT !.ip_data_lst[Len(hist.ip_data_lst)].domains =
                         Append(@, d)])

\* The framework calls update() with the configuration.
UpdateConfigured ==
    /\ Running
    /\ builds = 0
    /\ LET r == update(Cur, build_update_args(hist.global_config, hist.ip_data_lst))
       IN  Commit(r[2], "update", IF r[1] THEN "TRUE" ELSE "FALSE")
    /\ builds' = builds + 1
    /\ UNCHANGED <<busOwner, mainBus, lifecycle, hist>>

BuildNext ==
    \/ SetGlobalConfig
    \/ AddGlobalDomain
    \/ AddGlobalServer
    \/ AddGlobalSearch
    \/ AddInterface
    \/ AddNameserver
    \/ AddSearch
    \/ AddDomain
    \/ UpdateConfigured

BuildSpec == BuildInit /\ [][BuildNext]_vars


\* ------------------------------------------------------------------ claims

privVars == <<dbus_connection, update_cancellable, name_owner, name_owner_changed_id,
              name_owner_cancellable, latest_update_args>>

LiveCalls == {c \in calls : ~c.cancelled}
LiveLookups == {l \in lookups : ~l.cancelled}

\* C1: at most one call that has not been cancelled is outstanding, after any
\* sequence of update, stop, signals, lookup completions and call completions.
C1_AtMostOneLiveCall == Cardinality(LiveCalls) <= 1

\* A send issued while the previous call was still outstanding: the old call
\* is in flight, cancelled, beside the new one.
C1_Witness ==
    /\ step.sends # <<>>
    /\ \E c \in calls : c.cancelled
    /\ \E c \in calls : ~c.cancelled

\* C2: a call is issued only with a non-empty owner cached: every call a
\* handler issued is addressed to the owner cached when the handler returns,
\* and that owner is not NULL.
C2_SendOnlyWithOwner ==
    /\ step.sends # <<>> => name_owner # NULL
    /\ \A i \in 1..Len(step.sends) : step.sends[i].dest = name_owner
    /\ \A c \in LiveCalls : c.dest \in Owners

\* update() found an owner cached and issued a call to it.
C2_Witness ==
    /\ step.op = "update"
    /\ Len(step.sends) = 1
    /\ name_owner \in Owners

\* C3: every call issued carries the message of the most recent update(), and
\* the one retained message is that message.
C3_LatestMessageOnly ==
    /\ \A i \in 1..Len(step.sends) : step.sends[i].msg = builds
    /\ \A c \in LiveCalls : c.msg <= builds
    /\ lifecycle = "running" /\ builds > 0 => latest_update_args = builds

\* An ownership event sent the message of the second update().
C3_Witness ==
    /\ step.op \in {"name_owner_changed_cb", "get_name_owner_cb"}
    /\ Len(step.sends) = 1
    /\ builds >= 2

\* Nothing is left to deliver: no signal queued for a subscription, no lookup
\* whose callback has yet to run.
Quiescent ==
    /\ \A s \in subscriptions : signals[s] = <<>>
    /\ LiveLookups = {}

\* C4: when update(m) succeeded, was the framework's last call, the daemon owns
\* its name and every signal and lookup result has been delivered (each
\* reporting what the bus held), a call carrying m has been issued to that
\* owner.
C4_LatestReachesOwner ==
    (/\ lifecycle = "running"
     /\ hist.lastCmd = "update_ok"
     /\ ~hist.lookupFailed
     /\ busOwner # NULL
     /\ Quiescent)
    => hist.delivered

\* C5: an ownership signal or lookup result that changes the cached owner to a
\* non-empty value triggers exactly one send, of the retained message to the
\* new owner; one that does not (it repeats the cached owner, or clears it)
\* triggers none.
C5_OneSendPerNewOwner ==
    [][step'.op \in {"name_owner_changed_cb", "get_name_owner_cb"}
       => IF name_owner' # name_owner /\ name_owner' # NULL
          THEN /\ latest_update_args # NoId
               /\ step'.sends = <<[dest |-> name_owner', msg |-> latest_update_args]>>
          ELSE step'.sends = <<>>]_vars

\* A signal gave the plugin its owner and the retained message went out, once.
C5_Witness ==
    /\ step.op = "name_owner_changed_cb"
    /\ step.sends = <<[dest |-> name_owner, msg |-> latest_update_args]>>
    /\ latest_update_args # NoId

\* C6: update() returns an error exactly when the plugin holds no connection
\* and none can be obtained, and then starts no call, subscription or lookup;
\* otherwise it returns success.
C6_UpdateFailsOnlyWithoutBus ==
    [][step'.op = "update"
       => /\ (step'.ret = "FALSE") <=> (~dbus_connection /\ ~mainBus)
          /\ step'.ret \in {"TRUE", "FALSE"}
          /\ step'.ret = "FALSE"
               => /\ calls' = calls
                  /\ lookups' = lookups
                  /\ subscriptions' = subscriptions
                  /\ step'.sends = <<>>
                  /\ ~dbus_connection']_vars

\* update() failed for want of a connection.
C6_Witness ==
    /\ step.op = "update"
    /\ step.ret = "FALSE"
    /\ ~mainBus

\* C7: get_update_pending() is true exactly while a call that was not
\* cancelled is outstanding.
C7_PendingIffLiveCall == get_update_pending(Cur) <=> LiveCalls # {}

\* A call completed (not cancelled) and pending went back to false.
C7_Witness ==
    /\ step.op = "update_done"
    /\ ~get_update_pending(Cur)
    /\ lifecycle = "running"

\* C8: the callback of a cancelled call changes no field of the plugin, logs
\* nothing, notifies nothing, sends nothing and leaves the other calls alone.
C8_CancelledCallbackInert ==
    [][step'.op = "update_done(cancelled)"
       => /\ UNCHANGED privVars
          /\ step'.logs = <<>>
          /\ step'.notify = 0
          /\ step'.sends = <<>>
          /\ lifecycle' = lifecycle
          /\ {c \in calls' : ~c.cancelled} = LiveCalls
          /\ lookups' = lookups
          /\ subscriptions' = subscriptions]_vars

\* The callback of a superseded call ran while the newer call was pending.
C8_Witness ==
    /\ step.op = "update_done(cancelled)"
    /\ update_cancellable # NoId
    /\ LiveCalls # {}

\* C9: at most one subscription is active and at most one lookup that has not
\* been cancelled is outstanding.
C9_OneSubscriptionOneLookup ==
    /\ Cardinality(subscriptions) <= 1
    /\ Cardinality(LiveLookups) <= 1
    /\ subscriptions = IF name_owner_changed_id = NoId THEN {} ELSE {name_owner_changed_id}

\* A second update() ran ensure_all_connected while the plugin was subscribed
\* and waiting for its lookup.
C9_Witness ==
    /\ step.op = "update"
    /\ builds >= 2
    /\ step.ret = "TRUE"
    /\ name_owner = NULL
    /\ Cardinality(subscriptions) = 1
    /\ Cardinality(LiveLookups) = 1

\* C10: when stop() returns, no call and no lookup is outstanding
\* un-cancelled, no subscription is active, no connection handle is held and
\* no owner is cached.
C10_StopDisconnects ==
    step.op = "stop"
    => /\ LiveCalls = {}
       /\ LiveLookups = {}
       /\ subscriptions = {}
       /\ name_owner_changed_id = NoId
       /\ ~dbus_connection
       /\ name_owner = NULL

\* Nothing for stop() to tear down: no cancellable and no subscription id held.
NoWork ==
    /\ update_cancellable = NoId
    /\ name_owner_cancellable = NoId
    /\ name_owner_changed_id = NoId

\* C11: stop() with no work outstanding (before any update(), or right after
\* another stop()) changes nothing, logs nothing and does not fail.
C11_StopIdempotent ==
    [][step'.op = "stop" /\ (NoWork \/ step.op = "stop")
       => /\ UNCHANGED <<privVars, calls, lookups, subscriptions, signals, lifecycle>>
          /\ step' = NoEffect("stop")]_vars

\* stop() ran before any update().
C11_Witness ==
    /\ step.op = "stop"
    /\ builds = 0
    /\ NoWork
    /\ lifecycle = "running"

\* C12: every step of the running plugin that flips get_update_pending() or
\* flips ownership (cached owner present / absent) calls
\* _nm_dns_plugin_update_pending_maybe_changed at least once.
C12_FlipsNotify ==
    [][(/\ lifecycle' = "running"
        /\ \/ (update_cancellable' = NoId) # (update_cancellable = NoId)
           \/ (name_owner' = NULL) # (name_owner = NULL))
       => step'.notify >= 1]_vars

\* C13: while an owner is cached, every outstanding call that was not
\* cancelled is addressed to that owner; and a handler that changes the cached
\* owner from one name to a different one leaves exactly one such call, newly
\* issued, carrying the retained message to the new owner.
C13_NeverMisdirected ==
    [][/\ name_owner' # NULL => \A c \in LiveCalls' : c.dest = name_owner'
       /\ (name_owner \in Owners /\ name_owner' \in Owners /\ name_owner' # name_owner)
          => /\ step'.sends = <<[dest |-> name_owner', msg |-> latest_update_args']>>
             /\ Cardinality(LiveCalls') = 1
             /\ \A c \in LiveCalls : c.id \notin {d.id : d \in LiveCalls'}
                                     \/ c.dest = name_owner']_vars

\* The owner changed from one name straight to another while a call to the
\* old one was outstanding: that call is cancelled, a new one goes to the new
\* owner.
C13_Witness ==
    /\ step.owner_was \in Owners
    /\ name_owner \in Owners
    /\ step.owner_was # name_owner
    /\ \E c \in calls : c.cancelled
    /\ \E c \in LiveCalls : c.dest = name_owner

\* ------------------------------------------- claims about the message built

\* These are read under BuildSpec, in the states update() leaves: hist is the
\* configuration update() was called with and latest_update_args the message
\* it built from it.
Built == step.op = "update"

\* The servers of the message that carry the interface keys of entry ip_data,
\* and those that carry none (the servers of the global configuration).
ServersOf(ip_data) ==
    LET mine(rec) == rec.interface = nm_platform_link_get_name(ip_data.ifindex)
    IN  SelectSeq(latest_update_args.servers, mine)

GlobalServers ==
    LET global(rec) == rec.interface = NULL
    IN  SelectSeq(latest_update_args.servers, global)

\* The searches of ip_data hold a routing-only ".", written "~.".
ListsRoutingOnlyDot(ip_data) ==
    \E j \in 1..Len(ip_data.searches) :
        LET p == nm_utils_parse_dns_domain(ip_data.searches[j])
        IN  p.is_routing /\ p.domain = <<".">>

\* The list the domains of ip_data are read from.
GatheredFrom(ip_data) ==
    IF ip_data.searches # <<>> THEN ip_data.searches ELSE ip_data.domains

\* C14: when the searches of some entry (with or without nameservers) hold a
\* routing-only ".", no server of any interface gets a "." added to its
\* routing domains: they are the names of the list its domains are read from
\* and nothing more.
C14_ExplicitDefaultNotSynthesized ==
    (/\ Built
     /\ \E i \in 1..Len(hist.ip_data_lst) : ListsRoutingOnlyDot(hist.ip_data_lst[i]))
    => \A i \in 1..Len(hist.ip_data_lst) :
          LET servers == ServersOf(hist.ip_data_lst[i])
          IN  \A k \in 1..Len(servers) :
                 Len(servers[k].routing_domains) = Len(GatheredFrom(hist.ip_data_lst[i]))

\* An entry without nameservers lists "~."; another entry, which does not
\* list it, has the best default route and a server in the message.
C14_Witness ==
    /\ Built
    /\ \E i, j \in 1..Len(hist.ip_data_lst) :
          /\ ListsRoutingOnlyDot(hist.ip_data_lst[i])
          /\ hist.ip_data_lst[i].nameservers = <<>>
          /\ ~ListsRoutingOnlyDot(hist.ip_data_lst[j])
          /\ hist.ip_data_lst[j].best_default_route
          /\ ServersOf(hist.ip_data_lst[j]) # <<>>

\* C15: when no entry's searches hold a routing-only ".", every server of an
\* interface that has the best default route gets "." as its last routing
\* domain, after the names of the list its domains are read from.
C15_DefaultSynthesized ==
    (/\ Built
     /\ ~\E i \in 1..Len(hist.ip_data_lst) : ListsRoutingOnlyDot(hist.ip_data_lst[i]))
    => \A i \in 1..Len(hist.ip_data_lst) :
          hist.ip_data_lst[i].best_default_route
          => LET servers == ServersOf(hist.ip_data_lst[i])
                 n == Len(GatheredFrom(hist.ip_data_lst[i]))
             IN  \A k \in 1..Len(servers) :
                    /\ Len(servers[k].routing_domains) = n + 1
                    /\ servers[k].routing_domains[n + 1] = <<".">>

\* C16: every entry contributes one server per nameserver that parses, in
\* the order of its list, and none for a string that does not parse (none at
\* all for an empty list); the message holds nothing else beside the global
\* servers, and update() returns TRUE.
C16_OneServerPerValidNameserver ==
    Built
    => /\ step.ret = "TRUE"
       /\ \A i \in 1..Len(hist.ip_data_lst) :
             LET ip_data == hist.ip_data_lst[i]
                 parses(str) == nm_dns_uri_parse(ip_data.addr_family, str).ok
                 valid == SelectSeq(ip_data.nameservers, parses)
                 servers == ServersOf(ip_data)
             IN  /\ Len(servers) = Len(valid)
                 /\ \A k \in 1..Len(valid) :
                       servers[k].address
                           = nm_dns_uri_parse(ip_data.addr_family, valid[k]).addr
       /\ Len(latest_update_args.servers)
              = Len(GlobalServers)
                + total_len([i \in 1..Len(hist.ip_data_lst) |->
                                ServersOf(hist.ip_data_lst[i])])

\* An entry whose list has a string that does not parse before one that
\* does: the message has a server for the second.
C16_Witness ==
    /\ Built
    /\ \E i \in 1..Len(hist.ip_data_lst) :
          LET ip_data == hist.ip_data_lst[i]
          IN  /\ ServersOf(ip_data) # <<>>
              /\ \E j, k \in 1..Len(ip_data.nameservers) :
                    /\ j < k
                    /\ ~nm_dns_uri_parse(ip_data.addr_family, ip_data.nameservers[j]).ok
                    /\ nm_dns_uri_parse(ip_data.addr_family, ip_data.nameservers[k]).ok

C18_DomainsGathered ==
    Built
    => \A i \in 1..Len(hist.ip_data_lst) :
          LET strv == GatheredFrom(hist.ip_data_lst[i])
              parsed == [j \in 1..Len(strv) |-> nm_utils_parse_dns_domain(strv[j])]
              not_routing(p) == ~p.is_routing
              kept == SelectSeq(parsed, not_routing)
              servers == ServersOf(hist.ip_data_lst[i])
          IN  \A k \in 1..Len(servers) :
                 /\ Len(servers[k].routing_domains) >= Len(strv)
                 /\ \A j \in 1..Len(strv) :
                       servers[k].routing_domains[j] = parsed[j].domain
                 /\ servers[k].search_domains = [j \in 1..Len(kept) |-> kept[j].domain]

\* An interface with a server in the message that has searches, one of them
\* routing-only, and plain domains too.
C18_Witness ==
    /\ Built
    /\ \E i \in 1..Len(hist.ip_data_lst) :
          LET ip_data == hist.ip_data_lst[i]
          IN  /\ ServersOf(ip_data) # <<>>
              /\ ip_data.domains # <<>>
              /\ \E j \in 1..Len(ip_data.searches) :
                    nm_utils_parse_dns_domain(ip_data.searches[j]).is_routing

\* C19: a NameOwnerChanged signal with an empty new owner, delivered while an
\* owner is cached, clears the cached owner and nothing else: the retained
\* message stays, no call is issued or cancelled, the subscription stays.
C19_OwnerLostKeepsMessage ==
    [][(/\ step'.op = "name_owner_changed_cb"
        /\ name_owner # NULL
        /\ \E s \in subscriptions :
              /\ signals[s] # <<>>
              /\ Head(signals[s]).new_owner = EmptyStr
              /\ signals' = [signals EXCEPT ![s] = Tail(@)])
       => /\ name_owner' = NULL
          /\ latest_update_args' = latest_update_args
          /\ latest_update_args # NoId
          /\ step'.sends = <<>>
          /\ calls' = calls
          /\ update_cancellable' = update_cancellable
          /\ subscriptions' = subscriptions
          /\ name_owner_changed_id' = name_owner_changed_id
          /\ name_owner_changed_id \in subscriptions]_vars

\* The daemon left while its owner was cached: the owner is cleared, the
\* message is still retained and the plugin is still subscribed.
C19_Witness ==
    /\ step.op = "name_owner_changed_cb"
    /\ step.owner_was \in Owners
    /\ name_owner = NULL
    /\ latest_update_args # NoId
    /\ name_owner_changed_id \in subscriptions

\* C20: when a call that was not cancelled completes without success (no
\* reply, or a reply whose flag is clear), pending becomes false, warnings are
\* logged and nothing else happens: no call is issued, the retained message
\* and the cached owner stay, the plugin keeps running.
C20_FailureOnlyLogged ==
    [][(/\ step'.op = "update_done"
        /\ step'.logs # <<"T: dnsconfd update successful">>)
       => /\ update_cancellable' = NoId
          /\ step'.sends = <<>>
          /\ calls' \subseteq calls
          /\ latest_update_args' = latest_update_args
          /\ name_owner' = name_owner
          /\ step'.logs # <<>>
          /\ lifecycle' = lifecycle]_vars

\* C21: dnsconfd_update_done unpacks the reply only when there is one: a call
\* that completes with no reply and was not cancelled logs its one warning,
\* the error, and neither crashes on the missing reply nor logs a status
\* message read from it.
C21_ReplyReadOnlyWhenPresent ==
    [][(/\ step'.op = "update_done"
        /\ step'.logs # <<>>
        /\ step'.logs[1] = "W: dnsconfd update failed: error")
       => /\ lifecycle' # "crashed"
          /\ Len(step'.logs) = 1]_vars

\* C22: while the plugin is in use (its last call by the framework was an
\* update() that succeeded), an owner is cached or a call is outstanding only
\* with the NameOwnerChanged subscription active.
C22_SubscribedWhileInUse ==
    (/\ lifecycle = "running"
     /\ hist.lastCmd = "update_ok"
     /\ (name_owner # NULL \/ LiveCalls # {}))
    => /\ name_owner_changed_id # NoId
       /\ name_owner_changed_id \in subscriptions

\* C23: while the plugin lives, the cached owner goes from present to absent
\* only in name_owner_changed_cb, on a signal whose new owner is empty; no
\* completion of a lookup clears it.
C23_OwnerClearedOnlyBySignal ==
    [][(/\ name_owner # NULL
        /\ name_owner' = NULL
        /\ lifecycle' = "running")
       => /\ step'.op = "name_owner_changed_cb"
          /\ \E s \in subscriptions :
                /\ signals[s] # <<>>
                /\ Head(signals[s]).new_owner = EmptyStr]_vars

====
